---- MODULE Spec2Model ----
(***************************************************************************)
(* NL2SQL assistant: the SQL safety gate (is_safe_select), the history     *)
(* context (build_history_context) and the turn protocol of the three      *)
(* front ends: NL2SQL.py main (console loop with history), nl2sql.py main  *)
(* (single-shot console) and app.py (web handler).                         *)
(*                                                                         *)
(* Text is modelled as a sequence of one-character strings, so that        *)
(* strip(), upper(), slicing, startswith() and the \b word boundaries of   *)
(* WRITE_REGEX are computed character by character.                        *)
(***************************************************************************)
EXTENDS Integers, Sequences, FiniteSets, TLC

VARIABLES
    fe,          \* front end: "console" (NL2SQL.py), "simple" (nl2sql.py), "web" (app.py), "gate"
    pc,          \* position of the front end / of the gate harness
    conn,        \* database connection: "open" or "closed"
    history,     \* the history list: sequence of [q, sql, preview]
    prov,        \* per stored turn: gate verdict and execution outcome it was created from
    histBefore,  \* the history list when the last turn started
    max_hist,    \* web "History turns" number input
    question,    \* the question of the last turn, as read
    sql,         \* the candidate SQL of the last turn
    verdict,     \* the gate decision of the last turn: "safe", "rejected", or "none" (gate not reached)
    hist_ctx,    \* the history context built in the last turn (empty when none was built)
    calls,       \* the collaborator calls of the last turn, in order
    outcome,     \* what the last turn surfaced
    nfrag,       \* gate harness: number of fragments in the candidate
    nkw,         \* gate harness: number of keyword fragments in the candidate
    db,          \* the database file DB_PATH: "present" or "missing"
    schema_txt,  \* the schema text of the session: "unset", "loaded" or "placeholder"
    ok,          \* console: the confirmation answer of the last turn, trimmed and lower-cased
    expl,        \* the explanation shown by the last turn (empty when none)
    pair,        \* comparison of the two front ends: inputs and result of the console turn
    panel        \* web: the turns shown in the "Chat history" panel, top to bottom

vars == <<fe, pc, conn, history, prov, histBefore, max_hist, question, sql,
          verdict, hist_ctx, calls, outcome, nfrag, nkw, db, schema_txt, ok, expl, pair,
          panel>>


(***************************************************************************)
(* Bounds                                                                  *)
(***************************************************************************)
MaxFrags == 4      \* fragments per generated candidate in the gate harness
MaxKw == 1         \* keyword fragments per generated candidate

(***************************************************************************)
(* Characters and Python str operations                                    *)
(***************************************************************************)
LowerChars == <<"a", "b", "c", "d", "e", "f", "g", "h", "i", "j", "k", "l", "m",
                "n", "o", "p", "q", "r", "s", "t", "u", "v", "w", "x", "y", "z">>
UpperChars == <<"A", "B", "C", "D", "E", "F", "G", "H", "I", "J", "K", "L", "M",
                "N", "O", "P", "Q", "R", "S", "T", "U", "V", "W", "X", "Y", "Z">>
DigitChars == <<"0", "1", "2", "3", "4", "5", "6", "7", "8", "9">>

Range(s) == {s[i] : i \in 1..Len(s)}

LowerSet == Range(LowerChars)
UpperSet == Range(UpperChars)

\* str.isspace for the characters of the model
IsSpace(c) == c \in {" ", "\t", "\n"}

\* \w of the re module: letters, digits and underscore
WordChars == LowerSet \cup UpperSet \cup Range(DigitChars) \cup {"_"}

IsWordChar(c) == c \in WordChars

ToUpper == [c \in LowerSet |-> UpperChars[CHOOSE i \in 1..26 : LowerChars[i] = c]]
ToLower == [c \in UpperSet |-> LowerChars[CHOOSE i \in 1..26 : UpperChars[i] = c]]

UpperChar(c) == IF c \in LowerSet THEN ToUpper[c] ELSE c

LowerChar(c) == IF c \in UpperSet THEN ToLower[c] ELSE c

\* str.upper()
upper(s) == [i \in 1..Len(s) |-> UpperChar(s[i])]

\* str.lower()
lower(s) == [i \in 1..Len(s) |-> LowerChar(s[i])]

\* str.strip(): drop the leading and the trailing run of whitespace
strip(s) ==
    LET nonspace == {i \in 1..Len(s) : ~IsSpace(s[i])}
    IN  IF nonspace = {} THEN <<>>
        ELSE LET first == CHOOSE i \in nonspace : \A j \in nonspace : i <= j
                 last  == CHOOSE i \in nonspace : \A j \in nonspace : i >= j
             IN  SubSeq(s, first, last)

\* s[:-1]
AllButLast(s) == IF Len(s) = 0 THEN <<>> ELSE SubSeq(s, 1, Len(s) - 1)

\* s[:n]
Prefix(s, n) == IF Len(s) <= n THEN s ELSE SubSeq(s, 1, n)

\* s[-n:] for n > 0
Suffix(s, n) == IF Len(s) <= n THEN s ELSE SubSeq(s, Len(s) - n + 1, Len(s))

\* c in s
Contains(c, s) == \E i \in 1..Len(s) : s[i] = c

\* s.startswith(p)
startswith(s, p) == Len(s) >= Len(p) /\ SubSeq(s, 1, Len(p)) = p

(***************************************************************************)
(* The safety gate                                                         *)
(***************************************************************************)
SELECT == <<"S", "E", "L", "E", "C", "T">>

\* the alternation of WRITE_REGEX
WRITE_KEYWORDS == {
    <<"I", "N", "S", "E", "R", "T">>,
    <<"U", "P", "D", "A", "T", "E">>,
    <<"D", "E", "L", "E", "T", "E">>,
    <<"A", "L", "T", "E", "R">>,
    <<"D", "R", "O", "P">>,
    <<"T", "R", "U", "N", "C", "A", "T", "E">>,
    <<"C", "R", "E", "A", "T", "E">>,
    <<"R", "E", "P", "L", "A", "C", "E">>,
    <<"A", "T", "T", "A", "C", "H">>,
    <<"D", "E", "T", "A", "C", "H">>,
    <<"P", "R", "A", "G", "M", "A">> }

\* \b between s[p-1] and s[p]: exactly one side is a word character
\* (outside the string counts as a non-word character)
WordBoundary(s, p) ==
    LET before == p > 1 /\ IsWordChar(s[p - 1])
        after  == p <= Len(s) /\ IsWordChar(s[p])
    IN  before # after

\* WRITE_REGEX.search(s) with a case-sensitive pattern (re.IGNORECASE dropped)
WRITE_REGEX_search_cased(s) ==
    \E k \in WRITE_KEYWORDS :
        \E i \in 1..(Len(s) - Len(k) + 1) :
            /\ WordBoundary(s, i)
            /\ \A n \in 1..Len(k) : s[i + n - 1] = k[n]
            /\ WordBoundary(s, i + Len(k))

\* WRITE_REGEX.search(s): \b(KEYWORD)\b somewhere in s, re.IGNORECASE
WRITE_REGEX_search(s) ==
    \E k \in WRITE_KEYWORDS :
        \E i \in 1..(Len(s) - Len(k) + 1) :
            /\ WordBoundary(s, i)
            /\ \A n \in 1..Len(k) : UpperChar(s[i + n - 1]) = k[n]
            /\ WordBoundary(s, i + Len(k))

\* is_safe_select rejecting only a second semicolon (count(";") > 1)
is_safe_select_count(s) ==
    IF Cardinality({i \in 1..Len(s) : s[i] = ";"}) > 1 THEN FALSE
    ELSE IF WRITE_REGEX_search(s) THEN FALSE
    ELSE startswith(upper(strip(s)), SELECT)

\* is_safe_select without the .upper() of the start check
is_safe_select_cased(s) ==
    IF Contains(";", AllButLast(strip(s))) THEN FALSE
    ELSE IF WRITE_REGEX_search(s) THEN FALSE
    ELSE startswith(strip(s), SELECT)

is_safe_select(s) ==
    IF Contains(";", AllButLast(strip(s))) THEN FALSE
    ELSE IF WRITE_REGEX_search(s) THEN FALSE
    ELSE startswith(upper(strip(s)), SELECT)

\* the decision the front ends take on is_safe_select(sql)
GateVerdict(s) == IF is_safe_select(s) THEN "safe" ELSE "rejected"

(***************************************************************************)
(* Program constants and bounds of the session model                       *)
(***************************************************************************)
MAX_HISTORY_TURNS == 15
MaxHistInput == 50     \* max_value of the web "History turns" number input
PreviewCap == 3        \* rows[:3] / preview[:3]

MaxHist == 3           \* stored turns in the full-input session model
MaxRows == 4           \* rows in a query result
CtxMaxTurns == 16      \* stored turns in the long-history session model
PairMaxStart == 2      \* stored turns before the turn compared across the front ends

(***************************************************************************)
(* Result rows and their JSON rendering                                    *)
(***************************************************************************)
\* the i-th row of a result: an int cell, a str cell and a NULL cell
RowOf(i) == << [py |-> "int", v |-> DigitChars[(i % 10) + 1]],
               [py |-> "str", v |-> UpperChars[((i - 1) % 26) + 1]],
               [py |-> "NoneType", v |-> "None"] >>

\* cur.fetchall() of a result with k rows
DbRows(k) == [i \in 1..k |-> RowOf(i)]

\* json.dumps of one cell
JsonValue(c) ==
    CASE c.py = "int" -> [json |-> "number", text |-> c.v]
      [] c.py = "str" -> [json |-> "string", text |-> c.v]
      [] c.py = "NoneType" -> [json |-> "null", text |-> "null"]

\* json.dumps(rows): a JSON array of arrays
json_dumps(rows) ==
    [i \in 1..Len(rows) |-> [j \in 1..Len(rows[i]) |-> JsonValue(rows[i][j])]]

(***************************************************************************)
(* History                                                                 *)
(***************************************************************************)
\* h[-n:]  (Python: h[-0:] is the whole list)
PySliceLast(h, n) == IF n = 0 THEN h ELSE Suffix(h, n)

\* h[::-1]
Reverse(h) == [i \in 1..Len(h) |-> h[Len(h) + 1 - i]]

\* app.py history panel: "No history yet." for an empty history, else one
\* expander per turn of history[-max_hist:][::-1]
HistoryPanel(h, n) == IF h = <<>> THEN <<>> ELSE Reverse(PySliceLast(h, n))

\* json.dumps(h.get("preview", [])[:2]): the two-row cut of the :history listing
ContextPreview_two(preview) == json_dumps(Prefix(preview, 2))

\* json.dumps(h.get("preview", [])[:3])
ContextPreview(preview) == json_dumps(Prefix(preview, PreviewCap))

\* build_history_context(history): one chunk per turn of history[-MAX_HISTORY_TURNS:],
\* numbered from 1; "" (no chunk) for an empty history
build_history_context(h) ==
    IF h = <<>> THEN <<>>
    ELSE LET last == PySliceLast(h, MAX_HISTORY_TURNS)
         IN  [i \in 1..Len(last) |->
                 [turn |-> i,
                  Q |-> last[i].q,
                  SQL |-> last[i].sql,
                  PreviewRows |-> ContextPreview(last[i].preview)]]

\* the web argument without the "if max_hist" guard
WebHistoryArg_noguard(h, n) == PySliceLast(h, n)

\* the web argument taking the first n turns, h[:n]
WebHistoryArg_first(h, n) == IF n # 0 THEN Prefix(h, n) ELSE <<>>

\* app.py: st.session_state.history[-max_hist:] if max_hist else []
WebHistoryArg(h, n) == IF n # 0 THEN PySliceLast(h, n) ELSE <<>>

\* preview = rows[:3] if rows else []
TurnPreview(rows) == IF rows # <<>> THEN Prefix(rows, PreviewCap) ELSE <<>>

(***************************************************************************)
(* llm_sql post-processing                                                 *)
(***************************************************************************)
\* the backquote character, written as a name
Backquote == "BACKQUOTE"

FENCE == <<Backquote, Backquote, Backquote>>
SQLTAG == <<"s", "q", "l">>

\* s[n:]
Drop(s, n) == IF n >= Len(s) THEN <<>> ELSE SubSeq(s, n + 1, Len(s))

\* drop the leading run of whitespace (\s*)
LStrip(s) ==
    LET nonspace == {i \in 1..Len(s) : ~IsSpace(s[i])}
    IN  IF nonspace = {} THEN <<>>
        ELSE SubSeq(s, CHOOSE i \in nonspace : \A j \in nonspace : i <= j, Len(s))

\* drop the trailing run of whitespace (\s*)
RStrip(s) ==
    LET nonspace == {i \in 1..Len(s) : ~IsSpace(s[i])}
    IN  IF nonspace = {} THEN <<>>
        ELSE SubSeq(s, 1, CHOOSE i \in nonspace : \A j \in nonspace : i >= j)

\* re.sub(r"^```(?:sql)?\s*|\s*```$", "", s)
StripFences(s) ==
    LET afterOpen ==
            IF startswith(s, FENCE)
            THEN LET r == Drop(s, 3)
                 IN  LStrip(IF startswith(r, SQLTAG) THEN Drop(r, 3) ELSE r)
            ELSE s
        n == Len(afterOpen)
    IN  IF n >= 3 /\ SubSeq(afterOpen, n - 2, n) = FENCE
        THEN RStrip(SubSeq(afterOpen, 1, n - 3))
        ELSE afterOpen

\* llm_sql: content.strip(), fence removal, .strip()
PostProcess(raw) == strip(StripFences(strip(raw)))

(***************************************************************************)
(* Inputs of the session model                                             *)
(***************************************************************************)
Q1 == <<"q", "1">>
Q2 == <<" ", "q", "2", " ">>
Questions == {Q1, Q2}

CmdHistory == <<":", "h", "i", "s", "t", "o", "r", "y">>
CmdClear == <<":", "c", "l", "e", "a", "r">>
CmdClearUpper == <<":", "C", "L", "E", "A", "R">>
CmdSchema == <<":", "s", "c", "h", "e", "m", "a">>
CmdExit == <<"e", "x", "i", "t">>
CmdQuit == <<"Q", "u", "i", "t">>
CmdQ == <<"q">>
Blank == <<" ", " ">>

\* the words that end the loop, without the one-letter form
ExitWords_noq == {CmdExit, lower(CmdQuit)}

\* if low in {"exit", "quit", "q"}
ExitWords == {CmdExit, lower(CmdQuit), CmdQ}

ConsoleLines == Questions \cup {CmdHistory, CmdClear, CmdClearUpper, CmdSchema, CmdExit,
                                CmdQuit, CmdQ, Blank}

AnsEmpty == <<>>
AnsY == <<"Y">>
AnsN == <<"n">>
AnsYes == <<"y", "e", "s">>
Answers == {AnsEmpty, AnsY, AnsN, AnsYes}

\* no comparison of the two front ends is under way
NoPair ==
    [phase |-> "off", line |-> <<>>,
     g |-> [ok |-> FALSE, raw |-> <<>>], r |-> [ok |-> FALSE, nrows |-> 0],
     start |-> <<>>,
     con |-> [accepted |-> FALSE, executed |-> FALSE, history |-> <<>>, alive |-> FALSE]]

\* raw texts returned by the text-generation service
RespPlain == <<"S", "E", "L", "E", "C", "T", " ", "1">>
RespFenced == <<Backquote, Backquote, Backquote, "s", "q", "l", "\n", "s", "e", "l", "e", "c", "t", " ", "2", ";", "\n", Backquote, Backquote, Backquote>>
RespDrop == <<"D", "R", "O", "P", " ", "T", "A", "B", "L", "E", " ", "t">>
RespEmpty == <<Backquote, Backquote, Backquote, "\n", Backquote, Backquote, Backquote>>
\* the responses of the full-input session; the long-history session uses RespPlain
Responses == {RespFenced, RespDrop, RespEmpty}


(***************************************************************************)
(* Candidates of the gate harness: concatenations of fragments, and the    *)
(* candidates quoted in the specification's scenarios                      *)
(***************************************************************************)
PlainFragments == {
    SELECT,
    <<"s", "e", "l", "e", "c", "t">>,
    <<" ">>,
    <<";">>,
    <<"x">>,
    <<"'">> }

\* k with only its first letter in upper case
Capitalised(k) == << k[1] >> \o lower(Tail(k))

\* every keyword of WRITE_REGEX once: in upper case (INSERT, ALTER, ATTACH, CREATE),
\* in lower case (update, delete, drop, detach) or capitalised (Truncate, Replace, Pragma)
KeywordFragments ==
    {k \in WRITE_KEYWORDS : k[1] \in {"I", "A", "C"}}
    \cup {lower(k) : k \in {w \in WRITE_KEYWORDS : w[1] \in {"U", "D"}}}
    \cup {Capitalised(k) : k \in {w \in WRITE_KEYWORDS : w[1] \in {"T", "R", "P"}}}

ScenarioChain == <<"S", "E", "L", "E", "C", "T", " ", "*", " ", "F", "R", "O", "M", " ",
                   "T", "r", "a", "c", "k", ";", " ", "D", "R", "O", "P", " ", "T", "A",
                   "B", "L", "E", " ", "T", "r", "a", "c", "k", ";">>
ScenarioLower == <<"s", "e", "l", "e", "c", "t", " ", "*", " ", "f", "r", "o", "m", " ",
                   "t", "r", "a", "c", "k">>
ScenarioTop5 == <<"S", "E", "L", "E", "C", "T", " ", "B", "i", "l", "l", "i", "n", "g",
                  "C", "o", "u", "n", "t", "r", "y", ",", " ", "S", "U", "M", "(", "T",
                  "o", "t", "a", "l", ")", " ", "F", "R", "O", "M", " ", "I", "n", "v",
                  "o", "i", "c", "e", " ", "G", "R", "O", "U", "P", " ", "B", "Y", " ",
                  "B", "i", "l", "l", "i", "n", "g", "C", "o", "u", "n", "t", "r", "y",
                  " ", "O", "R", "D", "E", "R", " ", "B", "Y", " ", "2", " ", "D", "E",
                  "S", "C", " ", "L", "I", "M", "I", "T", " ", "5">>
ScenarioQuoted == <<"S", "E", "L", "E", "C", "T", " ", "'", "D", "r", "o", "p", " ", "i", "t", "'", " ", "F", "R", "O", "M", " ", "t">>
ScenarioTrailing == <<"S", "E", "L", "E", "C", "T", " ", "1", ";">>

Scenarios == {ScenarioChain, ScenarioLower, ScenarioTop5, ScenarioQuoted, ScenarioTrailing}

(***************************************************************************)
(* Gate harness: build a candidate, then apply is_safe_select to it        *)
(***************************************************************************)
GateInit ==
    /\ fe = "gate"
    /\ pc = "build"
    /\ conn = "closed"
    /\ history = <<>>
    /\ prov = <<>>
    /\ histBefore = <<>>
    /\ max_hist = 0
    /\ question = <<>>
    /\ sql = <<>>
    /\ verdict = "none"
    /\ hist_ctx = <<>>
    /\ calls = <<>>
    /\ outcome = "none"
    /\ nfrag = 0
    /\ nkw = 0
    /\ db = "present"
    /\ schema_txt = "unset"
    /\ ok = <<>>
    /\ expl = <<>>
    /\ pair = NoPair
    /\ panel = <<>>

GateFrame == UNCHANGED <<fe, conn, history, prov, histBefore, max_hist, question,
                         hist_ctx, calls, outcome, db, schema_txt, ok, expl, pair,
                         panel>>

GateAppendPlain ==
    /\ pc = "build"
    /\ nfrag < MaxFrags
    /\ \E f \in PlainFragments : sql' = sql \o f
    /\ nfrag' = nfrag + 1
    /\ UNCHANGED <<pc, verdict, nkw>>
    /\ GateFrame

GateAppendKeyword ==
    /\ pc = "build"
    /\ nfrag < MaxFrags
    /\ nkw < MaxKw
    /\ \E f \in KeywordFragments : sql' = sql \o f
    /\ nfrag' = nfrag + 1
    /\ nkw' = nkw + 1
    /\ UNCHANGED <<pc, verdict>>
    /\ GateFrame

GateScenario ==
    /\ pc = "build"
    /\ nfrag = 0
    /\ \E s \in Scenarios : sql' = s
    /\ nfrag' = MaxFrags
    /\ UNCHANGED <<pc, verdict, nkw>>
    /\ GateFrame

GateCheck ==
    /\ pc = "build"
    /\ verdict' = GateVerdict(sql)
    /\ pc' = "checked"
    /\ UNCHANGED <<sql, nfrag, nkw>>
    /\ GateFrame

GateNext == GateAppendPlain \/ GateAppendKeyword \/ GateScenario \/ GateCheck

SpecGate == GateInit /\ [][GateNext]_vars

(***************************************************************************)
(* The turn protocol                                                       *)
(***************************************************************************)
\* one collaborator call of a turn: function, SQL or question it was given, result
Call(fn, arg, res) == [fn |-> fn, arg |-> arg, res |-> res]

\* the values a handler step leaves in its locals
Locals(q, s, v, c, cl, o) ==
    /\ question' = q
    /\ sql' = s
    /\ verdict' = v
    /\ hist_ctx' = c
    /\ calls' = cl
    /\ outcome' = o

\* the gate branch never taken
Rejects_off(v) == FALSE

\* if not is_safe_select(sql): blocked message, end of the turn
Rejects(v) == v # "safe"

\* a history update that does not look at the execution result
RunSucceeded_always(dbOk) == TRUE

\* app.py: df is not None, i.e. run_query returned without raising
RunSucceeded(dbOk) == dbOk

\* if ok and ok != "y": canceled
ConfirmProceeds(answer) == ~(answer # <<>> /\ answer # <<"y">>)

\* what the stored turn was created from
Provenance(v, dbOk) == [gate |-> v, exec |-> IF dbOk THEN "ok" ELSE "raise"]

\* a statement tidied up before it is executed
RunArg_bare(s) == IF s # <<>> /\ s[Len(s)] = ";" THEN AllButLast(s) ELSE s

\* run_query(conn, sql): the statement handed to the database
RunArg(s) == s

\* a clear that leaves the list as it is
ClearHistory_keep(h) == h

\* history.clear() / st.session_state.history = []
ClearHistory(h) == <<>>

\* a turn stored at the front of the list
StoreTurn_front(h, t) == <<t>> \o h

\* history.append({"q": ..., "sql": ..., "preview": ...})
StoreTurn(h, t) == Append(h, t)

\* texts of an explanation and of an error message
ExplText == <<"t", "e", "x", "t">>
ErrText == <<"e", "r", "r">>

\* explain_results: "" without a client, else the text of the model
Returned(res) == IF res = "empty" THEN <<>> ELSE ExplText

\* an explanation that shows the error
Explained_error(res) == IF res = "raise" THEN ErrText ELSE Returned(res)

\* try: expl = explain_results(...) except Exception: expl = ""
Explained(res) == IF res = "raise" THEN <<>> ELSE Returned(res)

\* an export failure that ends the turn with an error
AfterExport_abort(exp) == IF exp = "raise" THEN "export_failed" ELSE "result"

\* try: export_run(...) except Exception: pass (console) / st.warning (web)
AfterExport(exp) == "result"

\* the calls after a successful run_query: explain_results, then export_run
AfterRun(q, s, res, exported, exp) ==
    << Call("explain_results", s, res) >>
    \o (IF exported THEN << Call("export_run", s, exp) >> ELSE <<>>)

\* NL2SQL.py main before the loop: assert_db(), connect, get_schema
ConsoleStart ==
    /\ fe = "console"
    /\ pc = "start"
    /\ IF db = "missing"
       THEN \* AssertionError: nothing was opened, the program ends
            /\ pc' = "aborted"
            /\ UNCHANGED <<conn, schema_txt>>
       ELSE /\ pc' = "prompt"
            /\ conn' = "open"
            /\ schema_txt' = "loaded"
    /\ UNCHANGED <<fe, history, prov, histBefore, max_hist, question, sql, verdict,
                   hist_ctx, calls, outcome, nfrag, nkw, db, ok, expl, panel>>

\* NL2SQL.py main, one iteration of the loop from input() to the next input():
\* the commands, or generation and the gate. Gens: the possible results of llm_sql.
ConsoleLine(line, Gens) ==
    /\ fe = "console"
    /\ pc = "prompt"
    /\ histBefore' = history
    /\ ok' = <<>>
    /\ UNCHANGED panel
    /\ expl' = <<>>
    /\ UNCHANGED <<fe, max_hist, nfrag, nkw, db, schema_txt>>
    /\ LET q == strip(line)
           low == lower(q)
       IN  IF low \in ExitWords
           THEN /\ pc' = "exited"
                /\ conn' = "closed"
                /\ UNCHANGED <<history, prov>>
                /\ Locals(q, <<>>, "none", <<>>, <<>>, "exit")
           ELSE IF low = CmdHistory
           THEN /\ UNCHANGED <<pc, conn, history, prov>>
                /\ Locals(q, <<>>, "none", <<>>, <<>>, "history")
           ELSE IF low = CmdClear
           THEN /\ history' = ClearHistory(history)
                /\ prov' = <<>>
                /\ UNCHANGED <<pc, conn>>
                /\ Locals(q, <<>>, "none", <<>>, <<>>, "cleared")
           ELSE IF low = CmdSchema
           THEN /\ UNCHANGED <<pc, conn, history, prov>>
                /\ Locals(q, <<>>, "none", <<>>, <<>>, "schema")
           ELSE IF q = <<>>
           THEN /\ UNCHANGED <<pc, conn, history, prov>>
                /\ Locals(q, <<>>, "none", <<>>, <<>>, "no_question")
           ELSE \E g \in Gens :
                LET ctx == build_history_context(history)
                IN  IF ~g.ok
                    THEN \* llm_sql raises: the exception leaves the loop, finally closes
                         /\ pc' = "crashed"
                         /\ conn' = "closed"
                         /\ UNCHANGED <<history, prov>>
                         /\ Locals(q, <<>>, "none", ctx,
                                   << Call("llm_sql", q, "raise") >>, "gen_failed")
                    ELSE LET cand == PostProcess(g.raw)
                             v == GateVerdict(cand)
                             cl == << Call("llm_sql", q, "ok"),
                                      Call("is_safe_select", cand, v) >>
                         IN  IF Rejects(v)
                             THEN /\ UNCHANGED <<pc, conn, history, prov>>
                                  /\ Locals(q, cand, v, ctx, cl, "blocked")
                             ELSE /\ pc' = "confirm"
                                  /\ UNCHANGED <<conn, history, prov>>
                                  /\ Locals(q, cand, v, ctx, cl, "confirm")

\* NL2SQL.py main, from the confirmation input() to the next question prompt.
\* Runs, Expls, Exps: the possible results of run_query, explain_results, export_run.
ConsoleConfirm(ans, Runs, Expls, Exps) ==
    /\ fe = "console"
    /\ pc = "confirm"
    /\ ok' = lower(strip(ans))
    /\ UNCHANGED panel
    /\ UNCHANGED <<fe, max_hist, nfrag, nkw, histBefore, question, sql, verdict, hist_ctx,
                   db, schema_txt>>
    /\ IF ~ConfirmProceeds(ok')
       THEN /\ pc' = "prompt"
            /\ outcome' = "canceled"
            /\ expl' = <<>>
            /\ UNCHANGED <<conn, history, prov, calls>>
       ELSE \E r \in Runs :
            IF ~r.ok
            THEN \* run_query raises: the exception leaves the loop, finally closes
                 /\ pc' = "crashed"
                 /\ conn' = "closed"
                 /\ outcome' = "query_failed"
                 /\ expl' = <<>>
                 /\ calls' = Append(calls, Call("run_query", RunArg(sql), "raise"))
                 /\ UNCHANGED <<history, prov>>
            ELSE \E res \in Expls : \E exp \in Exps :
                 LET rows == DbRows(r.nrows)
                 IN  /\ pc' = "prompt"
                     /\ outcome' = AfterExport(exp)
                     /\ expl' = Explained(res)
                     /\ calls' = Append(calls, Call("run_query", RunArg(sql), "ok"))
                                    \o AfterRun(question, sql, res, TRUE, exp)
                     /\ history' = StoreTurn(history, [q |-> question, sql |-> sql,
                                                       preview |-> TurnPreview(rows)])
                     /\ prov' = Append(prov, Provenance(verdict, r.ok))
                     /\ UNCHANGED conn

\* nl2sql.py main up to the confirmation prompt (no commands, no history)
SimpleQuestion(line, Gens) ==
    /\ fe = "simple"
    /\ pc = "prompt"
    /\ histBefore' = history
    /\ ok' = <<>>
    /\ UNCHANGED panel
    /\ expl' = <<>>
    /\ UNCHANGED <<fe, max_hist, nfrag, nkw, history, prov, db, schema_txt>>
    /\ LET q == strip(line)
       IN  IF q = <<>>
           THEN /\ pc' = "exited"
                /\ conn' = "closed"
                /\ Locals(q, <<>>, "none", <<>>, <<>>, "no_question")
           ELSE \E g \in Gens :
                IF ~g.ok
                THEN /\ pc' = "crashed"
                     /\ conn' = "closed"
                     /\ Locals(q, <<>>, "none", <<>>,
                               << Call("llm_sql", q, "raise") >>, "gen_failed")
                ELSE LET cand == PostProcess(g.raw)
                         v == GateVerdict(cand)
                         cl == << Call("llm_sql", q, "ok"),
                                  Call("is_safe_select", cand, v) >>
                     IN  IF Rejects(v)
                         THEN /\ pc' = "exited"
                              /\ conn' = "closed"
                              /\ Locals(q, cand, v, <<>>, cl, "blocked")
                         ELSE /\ pc' = "confirm"
                              /\ UNCHANGED conn
                              /\ Locals(q, cand, v, <<>>, cl, "confirm")

\* nl2sql.py main from the confirmation input() to the end
SimpleConfirm(ans, Runs, Expls) ==
    /\ fe = "simple"
    /\ pc = "confirm"
    /\ conn' = "closed"
    /\ ok' = lower(strip(ans))
    /\ UNCHANGED panel
    /\ UNCHANGED <<fe, max_hist, nfrag, nkw, histBefore, question, sql, verdict, hist_ctx,
                   history, prov, db, schema_txt>>
    /\ IF ~ConfirmProceeds(ok')
       THEN /\ pc' = "exited"
            /\ outcome' = "canceled"
            /\ expl' = <<>>
            /\ UNCHANGED calls
       ELSE \E r \in Runs :
            IF ~r.ok
            THEN /\ pc' = "crashed"
                 /\ outcome' = "query_failed"
                 /\ expl' = <<>>
                 /\ calls' = Append(calls, Call("run_query", RunArg(sql), "raise"))
            ELSE \E res \in Expls :
                 /\ pc' = "exited"
                 /\ outcome' = "result"
                 /\ expl' = Explained(res)
                 /\ calls' = Append(calls, Call("run_query", RunArg(sql), "ok"))
                                \o AfterRun(question, sql, res, FALSE, "ok")

\* app.py: the schema text is read at the first script run of the session and
\* kept in the session state; without the file it is the text "(DB not found)"
LazySchema ==
    IF schema_txt # "unset" THEN schema_txt
    ELSE IF db = "present" THEN "loaded" ELSE "placeholder"

\* app.py: the connection is opened by the first script run that finds the file
SessionConn == IF conn = "closed" /\ db = "present" THEN "open" ELSE conn

\* app.py, the part of the script that every run executes before the handlers
WebPrelude ==
    /\ schema_txt' = LazySchema
    /\ conn' = SessionConn

\* app.py, the first script run of a session: the page is drawn, no button clicked
WebLoad ==
    /\ fe = "web"
    /\ pc = "start"
    /\ pc' = "idle"
    /\ WebPrelude
    /\ histBefore' = history
    /\ ok' = <<>>
    /\ panel' = HistoryPanel(history, max_hist)
    /\ expl' = <<>>
    /\ UNCHANGED <<fe, history, prov, max_hist, nfrag, nkw, db>>
    /\ Locals(<<>>, <<>>, "none", <<>>, <<>>, "loaded")

\* app.py, one script run with the Run button clicked
WebRun(qtext, export_enabled, Gens, Runs, Expls, Exps) ==
    /\ fe = "web"
    /\ pc = "idle"
    /\ WebPrelude
    /\ histBefore' = history
    /\ ok' = <<>>
    /\ UNCHANGED <<fe, pc, max_hist, nfrag, nkw, db>>
    /\ IF strip(qtext) = <<>>
       THEN /\ UNCHANGED <<history, prov>>
            /\ expl' = <<>>
            /\ Locals(qtext, <<>>, "none", <<>>, <<>>, "no_question")
       ELSE IF db = "missing"
       THEN \* elif not Path(DB_PATH).exists(): "Database not found"
            /\ UNCHANGED <<history, prov>>
            /\ expl' = <<>>
            /\ Locals(qtext, <<>>, "none", <<>>, <<>>, "db_missing")
       ELSE \E g \in Gens :
            LET ctx == build_history_context(WebHistoryArg(history, max_hist))
            IN  IF ~g.ok
                THEN /\ UNCHANGED <<history, prov>>
                     /\ expl' = <<>>
                     /\ Locals(qtext, <<>>, "none", ctx,
                               << Call("llm_sql", strip(qtext), "raise") >>, "gen_failed")
                ELSE LET cand == PostProcess(g.raw)
                         v == GateVerdict(cand)
                         c1 == << Call("llm_sql", strip(qtext), "ok") >>
                         c2 == Append(c1, Call("is_safe_select", cand, v))
                     IN  IF cand = <<>>
                         THEN \* "if sql:" is false: nothing more happens
                              /\ UNCHANGED <<history, prov>>
                              /\ expl' = <<>>
                              /\ Locals(qtext, cand, "none", ctx, c1, "nothing")
                         ELSE IF Rejects(v)
                         THEN /\ UNCHANGED <<history, prov>>
                              /\ expl' = <<>>
                              /\ Locals(qtext, cand, v, ctx, c2, "blocked")
                         ELSE \E r \in Runs :
                              LET ran == Call("run_query", RunArg(cand),
                                              IF r.ok THEN "ok" ELSE "raise")
                              IN  IF ~RunSucceeded(r.ok)
                                  THEN /\ UNCHANGED <<history, prov>>
                                       /\ expl' = <<>>
                                       /\ Locals(qtext, cand, v, ctx, Append(c2, ran),
                                                 "query_failed")
                                  ELSE \E res \in Expls :
                                       \E exp \in (IF export_enabled THEN Exps ELSE {"ok"}) :
                                           /\ history' = StoreTurn(history,
                                                  [q |-> qtext, sql |-> cand,
                                                   preview |-> TurnPreview(DbRows(r.nrows))])
                                           /\ prov' = Append(prov, Provenance(v, r.ok))
                                           /\ expl' = Explained(res)
                                           /\ Locals(qtext, cand, v, ctx,
                                                     Append(c2, ran)
                                                        \o AfterRun(qtext, cand, res,
                                                                    export_enabled, exp),
                                                     AfterExport(exp))
    /\ panel' = HistoryPanel(history', max_hist)

\* app.py, one script run with the "Clear history" button clicked
WebClear ==
    /\ fe = "web"
    /\ pc = "idle"
    /\ WebPrelude
    /\ histBefore' = history
    /\ history' = ClearHistory(history)
    /\ prov' = <<>>
    /\ ok' = <<>>
    /\ panel' = HistoryPanel(history', max_hist)
    /\ expl' = <<>>
    /\ UNCHANGED <<fe, pc, max_hist, nfrag, nkw, db>>
    /\ Locals(<<>>, <<>>, "none", <<>>, <<>>, "cleared")

\* app.py, one script run after the "History turns" input was changed to d
WebSetMaxHist(d) ==
    /\ fe = "web"
    /\ pc = "idle"
    /\ d # max_hist
    /\ max_hist' = d
    /\ WebPrelude
    /\ histBefore' = history
    /\ ok' = <<>>
    /\ panel' = HistoryPanel(history, max_hist')
    /\ expl' = <<>>
    /\ UNCHANGED <<fe, pc, history, prov, nfrag, nkw, db>>
    /\ Locals(<<>>, <<>>, "none", <<>>, <<>>, "settings")

(***************************************************************************)
(* Session with the full inputs and a short history; the database file     *)
(* exists and the session has started                                      *)
(***************************************************************************)
Init ==
    /\ fe \in {"console", "simple", "web"}
    /\ pc = IF fe = "web" THEN "idle" ELSE "prompt"
    /\ conn = "open"
    /\ history = <<>>
    /\ prov = <<>>
    /\ histBefore = <<>>
    /\ max_hist = MAX_HISTORY_TURNS
    /\ question = <<>>
    /\ sql = <<>>
    /\ verdict = "none"
    /\ hist_ctx = <<>>
    /\ calls = <<>>
    /\ outcome = "none"
    /\ nfrag = 0
    /\ nkw = 0
    /\ db = "present"
    /\ schema_txt = "loaded"
    /\ ok = <<>>
    /\ expl = <<>>
    /\ pair = NoPair
    /\ panel = <<>>

CommandLines == ConsoleLines \ Questions
RowCounts == {0, MaxRows}
ExplainOutcomes == {"raise", "empty", "text"}
ExportOutcomes == {"ok", "raise"}
DepthChoices == {0, 1, MAX_HISTORY_TURNS}

\* results of llm_sql: it raises, or returns the post-processed response
GenOutcomes == {[ok |-> FALSE, raw |-> <<>>]} \cup {[ok |-> TRUE, raw |-> r] : r \in Responses}

\* results of run_query: it raises, or returns nrows rows
RunOutcomes == {[ok |-> FALSE, nrows |-> 0]} \cup {[ok |-> TRUE, nrows |-> n] : n \in RowCounts}

\* a query on a history of MaxHist turns fails, so that the history stays bounded
RunOutcomesNow == IF Len(history) < MaxHist THEN RunOutcomes ELSE {[ok |-> FALSE, nrows |-> 0]}

ConsoleCommand ==
    /\ \E line \in CommandLines : ConsoleLine(line, GenOutcomes)
    /\ UNCHANGED pair

ConsoleAsk ==
    /\ \E line \in Questions : ConsoleLine(line, GenOutcomes)
    /\ UNCHANGED pair

ConsoleAnswer ==
    /\ \E ans \in Answers :
          ConsoleConfirm(ans, RunOutcomesNow, ExplainOutcomes, ExportOutcomes)
    /\ UNCHANGED pair

SimpleAsk ==
    /\ \E line \in Questions \cup {Blank} : SimpleQuestion(line, GenOutcomes)
    /\ UNCHANGED pair

SimpleAnswer ==
    /\ \E ans \in Answers : SimpleConfirm(ans, RunOutcomes, ExplainOutcomes)
    /\ UNCHANGED pair

WebSubmit ==
    /\ \E qtext \in Questions \cup {Blank} : \E export_enabled \in BOOLEAN :
          WebRun(qtext, export_enabled, GenOutcomes, RunOutcomesNow, ExplainOutcomes,
                 ExportOutcomes)
    /\ UNCHANGED pair

WebClearClick == WebClear /\ UNCHANGED pair

WebDepth ==
    /\ \E d \in DepthChoices : WebSetMaxHist(d)
    /\ UNCHANGED pair

Next ==
    \/ ConsoleCommand
    \/ ConsoleAsk
    \/ ConsoleAnswer
    \/ SimpleAsk
    \/ SimpleAnswer
    \/ WebSubmit
    \/ WebClearClick
    \/ WebDepth

Spec == Init /\ [][Next]_vars

(***************************************************************************)
(* Session with a long history: the n-th stored turn has the question      *)
(* "q<n>" and a result of n mod (MaxRows + 1) rows, every generation and   *)
(* every query succeeds until the history holds CtxMaxTurns turns          *)
(***************************************************************************)
Decimal(n) ==
    IF n < 10 THEN << DigitChars[n + 1] >>
    ELSE << DigitChars[(n \div 10) + 1], DigitChars[(n % 10) + 1] >>

QuestionNo(n) == <<"q">> \o Decimal(n)

CtxQuestion == QuestionNo(Len(history) + 1)
CtxRowCount == (Len(history) + 1) % (MaxRows + 1)
CtxRoom == Len(history) < CtxMaxTurns

CtxInit ==
    /\ fe \in {"console", "web"}
    /\ pc = IF fe = "web" THEN "idle" ELSE "prompt"
    /\ conn = "open"
    /\ history = <<>>
    /\ prov = <<>>
    /\ histBefore = <<>>
    /\ max_hist = MAX_HISTORY_TURNS
    /\ question = <<>>
    /\ sql = <<>>
    /\ verdict = "none"
    /\ hist_ctx = <<>>
    /\ calls = <<>>
    /\ outcome = "none"
    /\ nfrag = 0
    /\ nkw = 0
    /\ db = "present"
    /\ schema_txt = "loaded"
    /\ ok = <<>>
    /\ expl = <<>>
    /\ pair = NoPair
    /\ panel = <<>>

CtxGen == {[ok |-> TRUE, raw |-> RespPlain]}
CtxRun == {[ok |-> CtxRoom, nrows |-> IF CtxRoom THEN CtxRowCount ELSE 0]}

CtxConsoleAsk == ConsoleLine(CtxQuestion, CtxGen) /\ UNCHANGED pair

CtxConsoleAnswer ==
    /\ ConsoleConfirm(IF CtxRoom THEN AnsEmpty ELSE AnsN, CtxRun, {"text"}, {"ok"})
    /\ UNCHANGED pair

CtxConsoleClear == ConsoleLine(CmdClear, CtxGen) /\ UNCHANGED pair

CtxWebSubmit == WebRun(CtxQuestion, TRUE, CtxGen, CtxRun, {"text"}, {"ok"}) /\ UNCHANGED pair

CtxWebClear == WebClear /\ UNCHANGED pair

CtxWebDepth ==
    /\ \E d \in 0..MaxHistInput : WebSetMaxHist(d)
    /\ UNCHANGED pair

CtxNext ==
    \/ CtxConsoleAsk
    \/ CtxConsoleAnswer
    \/ CtxConsoleClear
    \/ CtxWebSubmit
    \/ CtxWebClear
    \/ CtxWebDepth

SpecCtx == CtxInit /\ [][CtxNext]_vars

(***************************************************************************)
(* Session start with or without the database file; the file can be        *)
(* created while the session runs                                          *)
(***************************************************************************)
DbInit ==
    /\ fe \in {"console", "web"}
    /\ pc = "start"
    /\ conn = "closed"
    /\ history = <<>>
    /\ prov = <<>>
    /\ histBefore = <<>>
    /\ max_hist = MAX_HISTORY_TURNS
    /\ question = <<>>
    /\ sql = <<>>
    /\ verdict = "none"
    /\ hist_ctx = <<>>
    /\ calls = <<>>
    /\ outcome = "none"
    /\ nfrag = 0
    /\ nkw = 0
    /\ db \in {"present", "missing"}
    /\ schema_txt = "unset"
    /\ ok = <<>>
    /\ expl = <<>>
    /\ pair = NoPair
    /\ panel = <<>>

\* the environment: the database file is put in place
DbCreated ==
    /\ db = "missing"
    /\ db' = "present"
    /\ UNCHANGED <<fe, pc, conn, history, prov, histBefore, max_hist, question, sql,
                   verdict, hist_ctx, calls, outcome, nfrag, nkw, schema_txt, ok, expl, pair,
                   panel>>

DbConsoleStart == ConsoleStart /\ UNCHANGED pair

DbConsoleLine ==
    /\ \E line \in {Q1, CmdClear, CmdExit} : ConsoleLine(line, GenOutcomes)
    /\ UNCHANGED pair

DbConsoleAnswer ==
    /\ \E ans \in {AnsEmpty, AnsN} : ConsoleConfirm(ans, RunOutcomesNow, {"text"}, {"ok"})
    /\ UNCHANGED pair

DbWebLoad == WebLoad /\ UNCHANGED pair

DbWebSubmit ==
    /\ \E qtext \in {Q1, Blank} :
          WebRun(qtext, TRUE, GenOutcomes, RunOutcomesNow, {"text"}, {"ok"})
    /\ UNCHANGED pair

DbWebClear == WebClear /\ UNCHANGED pair

DbNext ==
    \/ DbCreated
    \/ DbConsoleStart
    \/ DbConsoleLine
    \/ DbConsoleAnswer
    \/ DbWebLoad
    \/ DbWebSubmit
    \/ DbWebClear

SpecDb == DbInit /\ [][DbNext]_vars

(***************************************************************************)
(* The two front ends side by side: a console session stores up to         *)
(* PairMaxStart turns, then runs one confirmed turn; the same question,    *)
(* llm_sql result and run_query result are then given to the web handler   *)
(* of a session that holds the same history                                *)
(***************************************************************************)
\* what a turn decided and left behind
Observed ==
    [accepted |-> verdict = "safe",
     executed |-> \E i \in 1..Len(calls) : calls[i].fn = "run_query",
     history |-> history,
     alive |-> pc \in {"prompt", "idle"} /\ conn = "open"]

PairInit ==
    /\ fe = "console"
    /\ pc = "prompt"
    /\ conn = "open"
    /\ history = <<>>
    /\ prov = <<>>
    /\ histBefore = <<>>
    /\ max_hist = MAX_HISTORY_TURNS
    /\ question = <<>>
    /\ sql = <<>>
    /\ verdict = "none"
    /\ hist_ctx = <<>>
    /\ calls = <<>>
    /\ outcome = "none"
    /\ nfrag = 0
    /\ nkw = 0
    /\ db = "present"
    /\ schema_txt = "loaded"
    /\ ok = <<>>
    /\ expl = <<>>
    /\ pair = [NoPair EXCEPT !.phase = "before"]
    /\ panel = <<>>

\* a turn of the console session before the compared one: question without
\* surrounding blanks, accepted candidate, successful query
PairEarlierAsk ==
    /\ pair.phase = "before"
    /\ Len(history) < PairMaxStart
    /\ ConsoleLine(Q1, {[ok |-> TRUE, raw |-> RespFenced]})
    /\ UNCHANGED pair

PairEarlierAnswer ==
    /\ pair.phase = "before"
    /\ ConsoleConfirm(AnsEmpty, {[ok |-> TRUE, nrows |-> n] : n \in RowCounts},
                      {"text"}, {"ok"})
    /\ UNCHANGED pair

\* the compared console turn, up to the confirmation prompt
PairConsoleAsk ==
    /\ pair.phase = "before"
    /\ \E line \in Questions : \E g \in GenOutcomes : \E r \in RunOutcomes :
          /\ ConsoleLine(line, {g})
          /\ pair' = [pair EXCEPT !.phase = "console", !.line = line, !.g = g, !.r = r,
                                  !.start = history]

\* the compared console turn, confirmed
PairConsoleAnswer ==
    /\ pair.phase = "console"
    /\ ConsoleConfirm(AnsY, {pair.r}, {"text"}, {"ok"})
    /\ UNCHANGED pair

\* the console turn is over: its result is noted, and a web session that holds
\* the same starting history takes over
PairSwitch ==
    /\ pair.phase = "console"
    /\ pc # "confirm"
    /\ pair' = [pair EXCEPT !.phase = "web", !.con = Observed]
    /\ fe' = "web"
    /\ pc' = "idle"
    /\ conn' = "open"
    /\ history' = pair.start
    /\ prov' = SubSeq(prov, 1, Len(pair.start))
    /\ histBefore' = pair.start
    /\ ok' = <<>>
    /\ panel' = HistoryPanel(pair.start, max_hist)
    /\ expl' = <<>>
    /\ UNCHANGED <<max_hist, nfrag, nkw, db, schema_txt>>
    /\ Locals(<<>>, <<>>, "none", <<>>, <<>>, "none")

\* the web submit with the inputs of the console turn
PairWebSubmit ==
    /\ pair.phase = "web"
    /\ WebRun(pair.line, TRUE, {pair.g}, {pair.r}, {"text"}, {"ok"})
    /\ pair' = [pair EXCEPT !.phase = "done"]

PairNext ==
    \/ PairEarlierAsk
    \/ PairEarlierAnswer
    \/ PairConsoleAsk
    \/ PairConsoleAnswer
    \/ PairSwitch
    \/ PairWebSubmit

SpecPair == PairInit /\ [][PairNext]_vars

(***************************************************************************)
(* Properties of the turn protocol and of the history context              *)
(***************************************************************************)
\* the last step built a history context and handed it to llm_sql
CtxBuilt == calls # <<>> /\ calls[1].fn = "llm_sql"

\* the depth requested of the context: MAX_HISTORY_TURNS in the console,
\* the "History turns" input in the web front end
Depth == IF fe = "web" THEN max_hist ELSE MAX_HISTORY_TURNS

Min(a, b) == IF a <= b THEN a ELSE b

\* the Python value a JSON value stands for
PyValue(j) ==
    CASE j.json = "number" -> [py |-> "int", v |-> j.text]
      [] j.json = "string" -> [py |-> "str", v |-> j.text]
      [] j.json = "null" -> [py |-> "NoneType", v |-> "None"]

FromJson(rows) == [i \in 1..Len(rows) |-> [k \in 1..Len(rows[i]) |-> PyValue(rows[i][k])]]

\* chunk e of a context renders the stored turn t
Renders(e, t) ==
    /\ e.Q = t.q
    /\ e.SQL = t.sql
    /\ FromJson(e.PreviewRows) = t.preview

Failed == outcome \in {"gen_failed", "query_failed"}
NoAppend == outcome \in {"blocked", "canceled", "gen_failed", "query_failed"}

\* C1: every stored turn was created from a candidate that is_safe_select
\* accepted and run_query executed without error; a turn that was blocked,
\* cancelled or failed leaves the history as it was, and no context chunk
\* carries SQL the gate rejects.
C1_HistoryOnlyExecutedSafe ==
    /\ Len(prov) = Len(history)
    /\ \A i \in 1..Len(history) :
          /\ prov[i].gate = "safe"
          /\ prov[i].exec = "ok"
          /\ is_safe_select(history[i].sql)
    /\ (NoAppend => history = histBefore)
    /\ \A i \in 1..Len(hist_ctx) : is_safe_select(hist_ctx[i].SQL)

C1_Witness ==
    /\ fe = "web"
    /\ outcome = "query_failed"
    /\ history # <<>>
    /\ hist_ctx # <<>>

\* C2: in a turn whose candidate is_safe_select rejected, run_query is not
\* called (nor anything after it), the turn surfaces the blocked message and
\* the history is unchanged; run_query is only ever given the checked candidate.
C2_NoRunAfterRejection ==
    /\ (verdict = "rejected") =>
          /\ \A i \in 1..Len(calls) : calls[i].fn \in {"llm_sql", "is_safe_select"}
          /\ outcome = "blocked"
          /\ history = histBefore
    /\ \A i \in 1..Len(calls) :
          (calls[i].fn = "run_query") => (calls[i].arg = sql /\ is_safe_select(sql))

C2_Witness ==
    /\ verdict = "rejected"
    /\ outcome = "blocked"
    /\ sql = RespDrop

\* C3 (as claimed): after a turn in which llm_sql or run_query raised, in the
\* console loop and in the web handler, the session is still running, the
\* connection is open and the history is the one before the turn.
C3_FailureIsolated ==
    (fe \in {"console", "web"} /\ Failed) =>
        /\ pc \in {"prompt", "idle"}
        /\ conn = "open"
        /\ history = histBefore

\* C8: a history context handed to llm_sql has at most Depth chunks, each
\* with at most 3 preview rows.
C8_ContextBounded ==
    CtxBuilt =>
        /\ Len(hist_ctx) <= Depth
        /\ \A i \in 1..Len(hist_ctx) : Len(hist_ctx[i].PreviewRows) <= PreviewCap

\* more stored turns than the depth, and a full preview in the context
C8_Witness ==
    /\ CtxBuilt
    /\ Depth > 0
    /\ Len(histBefore) > Depth
    /\ Len(hist_ctx) = Depth
    /\ \E i \in 1..Len(hist_ctx) : Len(hist_ctx[i].PreviewRows) = PreviewCap

\* C9 (as claimed): the context built for a turn holds exactly the last
\* min(Depth, stored turns) turns, in insertion order.
C9_ContextIsLastTurns ==
    CtxBuilt =>
        LET n == Min(Depth, Len(histBefore))
        IN  /\ Len(hist_ctx) = n
            /\ \A i \in 1..Len(hist_ctx) :
                  Renders(hist_ctx[i], histBefore[Len(histBefore) - Len(hist_ctx) + i])

RunCalls == {i \in 1..Len(calls) : calls[i].fn = "run_query"}

\* the candidates is_safe_select accepted in the last turn
Approved ==
    {calls[i].arg : i \in {j \in 1..Len(calls) :
                              calls[j].fn = "is_safe_select" /\ calls[j].res = "safe"}}

\* the last turn called fn and got res
Got(fn, res) == \E i \in 1..Len(calls) : calls[i].fn = fn /\ calls[i].res = res

\* the session goes on: the loop is at its prompt (the page is idle), connection open
Alive == pc \in {"prompt", "idle"} /\ conn = "open"

\* the last turn appended exactly one turn, the one it executed, at the end
AppendedOnce ==
    /\ Len(history) = Len(histBefore) + 1
    /\ SubSeq(history, 1, Len(histBefore)) = histBefore
    /\ history[Len(history)].sql = sql

\* C11: a clear (console ':clear' in any letter case, web "Clear history")
\* leaves the history empty whatever it held and calls nothing; the context
\* built by the turn right after a clear is empty; every context built later
\* has at most as many chunks as turns were appended since the last clear,
\* and they render the last turns stored; a turn under way keeps its context
\* and its SQL up to its execution, and no clear comes in between.
C11_ClearEmptiesContext ==
    [][ /\ (outcome' = "cleared") => (history' = <<>> /\ calls' = <<>>)
        /\ (outcome = "cleared" /\ CtxBuilt') => (hist_ctx' = <<>>)
        /\ CtxBuilt' =>
              /\ Len(hist_ctx') <= Len(prov)
              /\ \A i \in 1..Len(hist_ctx') :
                    Renders(hist_ctx'[i], history[Len(history) - Len(hist_ctx') + i])
        /\ (pc = "confirm") =>
              (hist_ctx' = hist_ctx /\ sql' = sql /\ outcome' # "cleared")
      ]_vars

\* a clear of a history of several turns
C11_Witness ==
    /\ outcome = "cleared"
    /\ Len(histBefore) >= 2
    /\ history = <<>>

\* C12: a turn calls run_query at most once, with the candidate that
\* is_safe_select accepted in this turn, character for character; a turn that
\* passed the gate (and was confirmed, in the consoles) calls it exactly once;
\* after a database error the failed call is the last call of the turn.
C12_RunOnceApproved ==
    /\ Cardinality(RunCalls) <= 1
    /\ \A i \in RunCalls : calls[i].arg \in Approved /\ calls[i].arg = sql
    /\ (verdict = "safe" /\ outcome \notin {"confirm", "canceled"}) =>
          Cardinality(RunCalls) = 1
    /\ (outcome = "query_failed") =>
          /\ Cardinality(RunCalls) = 1
          /\ calls[Len(calls)] = Call("run_query", sql, "raise")

\* a database error on a candidate that ends with a semicolon
C12_Witness ==
    /\ outcome = "query_failed"
    /\ sql # <<>>
    /\ sql[Len(sql)] = ";"
    /\ Cardinality(RunCalls) = 1

\* C13: when explain_results raised or returned nothing, the explanation of
\* the turn is empty and the turn ends as a result; in the console loop and
\* in the web handler the session goes on and the executed turn was appended
\* to the history exactly once.
C13_ExplainFailureHarmless ==
    (Got("explain_results", "raise") \/ Got("explain_results", "empty")) =>
        /\ expl = <<>>
        /\ outcome = "result"
        /\ (fe \in {"console", "web"}) => (Alive /\ AppendedOnce)

C13_Witness ==
    /\ fe = "web"
    /\ Got("explain_results", "raise")
    /\ Len(history) = 2
    /\ expl = <<>>

\* C14 (as claimed): in the consoles, after the confirmation prompt an empty
\* answer, 'y' or 'yes' leads to the execution of the query, and 'n' cancels
\* the turn without an execution and without a history update.
C14_YesRuns ==
    (fe \in {"console", "simple"} /\ outcome \in {"result", "query_failed", "canceled"}) =>
        /\ (ok \in {AnsEmpty, lower(AnsY), AnsYes}) =>
              (outcome # "canceled" /\ RunCalls # {})
        /\ (ok = AnsN) =>
              (outcome = "canceled" /\ RunCalls = {} /\ history = histBefore)

\* C15 (as claimed): given the same starting history, question text, llm_sql
\* result and run_query result, the web submit accepts and executes exactly
\* when the confirmed console turn did, and leaves the same history and the
\* same session liveness.
C15_WebMatchesConsole ==
    (pair.phase = "done") => (Observed = pair.con)

\* C16: every step leaves the history unchanged, or appends one turn at its
\* end, or empties it.
C16_AppendOrClear ==
    [][ \/ history' = history
        \/ /\ Len(history') = Len(history) + 1
           /\ SubSeq(history', 1, Len(history)) = history
        \/ history' = <<>>
      ]_vars

\* a turn appended behind two stored turns
C16_Witness ==
    /\ outcome = "result"
    /\ Len(histBefore) = 2
    /\ Len(history) = 3
    /\ SubSeq(history, 1, 2) = histBefore
    /\ history[3] # history[2]

\* the control inputs of the console loop, lower-cased
ExitInputs == {<<"e", "x", "i", "t">>, <<"q", "u", "i", "t">>, <<"q">>}
ControlInputs == ExitInputs \cup {CmdHistory, CmdClear, CmdSchema, <<>>}

\* C17: in the console loop a control input, in any letter case, calls neither
\* llm_sql nor is_safe_select nor run_query; ':history', ':schema' and the
\* empty input leave the history and the session as they are, ':clear' empties
\* the history, 'exit'/'quit'/'q' end the loop with the connection closed, and
\* no step follows the end of the loop.
C17_ControlsOnlyControl ==
    /\ [](fe = "console" /\ lower(question) \in ControlInputs =>
            /\ calls = <<>>
            /\ verdict = "none"
            /\ (lower(question) \in {CmdHistory, CmdSchema, <<>>}) =>
                  (history = histBefore /\ Alive)
            /\ (lower(question) = CmdClear) => (history = <<>> /\ Alive)
            /\ (lower(question) \in ExitInputs) =>
                  (pc = "exited" /\ conn = "closed" /\ history = histBefore))
    /\ [][~(fe = "console" /\ pc = "exited")]_vars

\* 'q' typed with a history of two turns
C17_Witness ==
    /\ fe = "console"
    /\ question = CmdQ
    /\ pc = "exited"
    /\ conn = "closed"
    /\ Len(history) = 2

\* C18: whether export_run returned or raised, the turn ends as a result, the
\* session goes on and the executed turn was appended to the history exactly
\* once.
C18_ExportFailureHarmless ==
    (Got("export_run", "ok") \/ Got("export_run", "raise")) =>
        /\ outcome = "result"
        /\ Alive
        /\ AppendedOnce

C18_Witness ==
    /\ fe = "console"
    /\ Got("export_run", "raise")
    /\ Len(history) = 2
    /\ pc = "prompt"

\* C19 (as claimed): llm_sql is only called in a session whose schema text was
\* read from the database.
C19_NoGenerationWithoutSchema ==
    CtxBuilt => schema_txt = "loaded"

\* C20 (as claimed): a turn that reached llm_sql and is over (not waiting for
\* the confirmation, not cancelled by the user) surfaced a result, the blocked
\* message, a generation error or a query error; a candidate that is empty
\* after fence stripping surfaced the blocked message.
C20_OneSurfacedOutcome ==
    (fe \in {"console", "web"} /\ CtxBuilt /\ outcome \notin {"confirm", "canceled"}) =>
        /\ outcome \in {"result", "blocked", "gen_failed", "query_failed"}
        /\ (Got("llm_sql", "ok") /\ sql = <<>>) => (outcome = "blocked")

\* C21 (as claimed): after a script run of the web front end the history
\* panel shows the last min(max_hist, number of stored turns) turns, the most
\* recent first; with max_hist = 0 it shows no turn, as the history context
\* holds no turn for that depth.
C21_PanelShowsLastTurns ==
    (fe = "web" /\ pc = "idle") =>
        /\ Len(panel) = Min(max_hist, Len(history))
        /\ \A i \in 1..Len(panel) : panel[i] = history[Len(history) + 1 - i]
        /\ (max_hist = 0) => (panel = <<>>)

(***************************************************************************)
(* The policy of the gate, stated on the text                              *)
(***************************************************************************)
\* a semicolon that is followed by some non-whitespace character, i.e. a
\* semicolon before the final character of the trimmed text
InnerSemicolon(s) ==
    \E i \in 1..Len(s) : \E j \in (i + 1)..Len(s) : s[i] = ";" /\ ~IsSpace(s[j])

\* s[i..j] is a maximal run of word characters
WholeWordAt(s, i, j) ==
    /\ i <= j
    /\ \A k \in i..j : IsWordChar(s[k])
    /\ (i = 1 \/ ~IsWordChar(s[i - 1]))
    /\ (j = Len(s) \/ ~IsWordChar(s[j + 1]))

\* a forbidden keyword occurs as a whole word, in any letter case
HasForbiddenWord(s) ==
    \E k \in WRITE_KEYWORDS : \E i \in 1..(Len(s) - Len(k) + 1) :
        /\ \A n \in 1..Len(k) : s[i + n - 1] \in {k[n], LowerChar(k[n])}
        /\ WholeWordAt(s, i, i + Len(k) - 1)

\* the first non-whitespace characters are S,E,L,E,C,T in any letter case
SelectPrefixAt(s, i) ==
    /\ \A j \in 1..(i - 1) : IsSpace(s[j])
    /\ Len(s) >= i + 5
    /\ \A n \in 1..6 : s[i + n - 1] \in {SELECT[n], LowerChar(SELECT[n])}

StartsWithSelect(s) == \E i \in 1..Len(s) : SelectPrefixAt(s, i)

\* ... and they are the whole first word
FirstTokenIsSelect(s) ==
    \E i \in 1..Len(s) :
        /\ SelectPrefixAt(s, i)
        /\ (Len(s) = i + 5 \/ ~IsWordChar(s[i + 6]))

\* exactly one semicolon, and only whitespace after it
OneTrailingSemicolon(s) ==
    \E i \in 1..Len(s) :
        /\ s[i] = ";"
        /\ \A j \in 1..Len(s) : (s[j] = ";") => (j = i)
        /\ \A j \in (i + 1)..Len(s) : IsSpace(s[j])

\* C4: a semicolon before the final character of the trimmed candidate makes
\* is_safe_select return false; a candidate with one trailing semicolon that
\* has no forbidden word and starts with SELECT is accepted.
C4_SemicolonRule ==
    (pc = "checked") =>
        /\ (InnerSemicolon(sql) => verdict = "rejected")
        /\ ((sql = ScenarioChain) => verdict = "rejected")
        /\ ((OneTrailingSemicolon(sql) /\ ~HasForbiddenWord(sql) /\ StartsWithSelect(sql))
               => verdict = "safe")

C4_Witness ==
    /\ pc = "checked"
    /\ InnerSemicolon(sql)
    /\ StartsWithSelect(sql)
    /\ ~HasForbiddenWord(sql)
    /\ verdict = "rejected"

\* C5: a candidate in which a forbidden keyword occurs as a whole word, in
\* any letter case and at any position, is rejected by is_safe_select.
C5_ForbiddenWordRejected ==
    (pc = "checked" /\ HasForbiddenWord(sql)) => verdict = "rejected"

\* a lower-case keyword inside quotes, in a candidate the other rules accept
C5_Witness ==
    /\ pc = "checked"
    /\ verdict = "rejected"
    /\ StartsWithSelect(sql)
    /\ ~InnerSemicolon(sql)
    /\ \E i \in 2..Len(sql) : \E j \in i..(Len(sql) - 1) :
          /\ WholeWordAt(sql, i, j)
          /\ SubSeq(sql, i, j) \in {lower(k) : k \in WRITE_KEYWORDS}
          /\ sql[i - 1] = "'"
          /\ sql[j + 1] = "'"

\* C6 (as claimed): every accepted candidate has SELECT as its complete
\* first word.
C6_AcceptedFirstTokenSelect ==
    (pc = "checked" /\ verdict = "safe") => FirstTokenIsSelect(sql)

\* C7: is_safe_select accepts exactly the candidates that satisfy the three
\* rules together; the lower-case scenario and the GROUP BY ... LIMIT 5
\* scenario are accepted.
C7_GateIsConjunction ==
    (pc = "checked") =>
        /\ (verdict = "safe") <=> (/\ ~InnerSemicolon(sql)
                                   /\ ~HasForbiddenWord(sql)
                                   /\ StartsWithSelect(sql))
        /\ (sql \in {ScenarioLower, ScenarioTop5} => verdict = "safe")

C7_Witness ==
    /\ pc = "checked"
    /\ sql = ScenarioLower
    /\ verdict = "safe"

====
